---- MODULE Spec2Model ----
(***************************************************************************)
(* pdf-export-mcp: the pdf_export tool of src/pdf_export_mcp/server.py.    *)
(*                                                                         *)
(* Text is modelled as a sequence of tokens.  A token is a piece of text   *)
(* that the code's substring tests ('<head>' in html, '<html' in html,    *)
(* startswith('<!DOCTYPE')) either contain as a whole or not at all, so a  *)
(* substring test is a test on the tokens of the sequence.  A file name is *)
(* a sequence of characters.                                               *)
(***************************************************************************)
EXTENDS Integers, Sequences, FiniteSets, TLC

(***************************************************************************)
(* Bounds of the model.                                                    *)
(***************************************************************************)
\* longest base name of the sanitization specification
MaxNameLen == 3
\* longest HTML input (in tokens) of the composition specification
MaxHtmlLen == 3
\* length of the textual unique identifier (36 in the program)
UuidLen == 2
\* sizes are drawn around the multiples of 512 bytes up to this many halves
MaxHalfKB == 8
\* sizes are drawn around the multiples of 2^17 bytes from 1 MB on
MaxEighthMB == 4

(***************************************************************************)
(* Python values: an absent dictionary key, None, a str, a dict, an int.   *)
(***************************************************************************)
Absent == [kind |-> "absent"]
PyNone == [kind |-> "None"]
Str(s) == [kind |-> "str", val |-> s]
Dict(d) == [kind |-> "dict", val |-> d]
PyInt(n) == [kind |-> "int", val |-> n]

\* bool(v): None, "", {} and 0 are false
Truthy(v) ==
    CASE v.kind = "None" -> FALSE
      [] v.kind = "absent" -> FALSE
      [] v.kind = "str" -> v.val # << >>
      [] v.kind = "dict" -> DOMAIN v.val # {}
      [] v.kind = "int" -> v.val # 0

\* d.get(key, default) on a dict given as a function on its keys
Get(d, key, default) == IF key \in DOMAIN d THEN d[key] ELSE default

\* arguments.get(key, default): the key's value, None included, when present
ArgGet(arguments, key, default) ==
    IF arguments[key].kind = "absent" THEN default ELSE arguments[key]

(***************************************************************************)
(* Tokens of HTML text.                                                    *)
(***************************************************************************)
WhitespaceTokens == {" ", "\n"}
\* tokens that begin with '<!DOCTYPE'
DoctypeTokens == {"<!DOCTYPE html>"}
\* tokens that contain '<html'
HtmlOpenTokens == {"<html>", "<html lang=\"en\">"}
HtmlTag == "<html>"
HeadTag == "<head>"

\* text.startswith('<!DOCTYPE')
StartsWithDoctype(text) == Len(text) > 0 /\ text[1] \in DoctypeTokens

\* '<html' in text
ContainsHtmlOpen(text) == \E k \in 1..Len(text) : text[k] \in HtmlOpenTokens

\* tok in text, for a token that is a complete tag
Contains(text, tok) == \E k \in 1..Len(text) : text[k] = tok

\* text.replace(tok, new): every occurrence of the token replaced
RECURSIVE Replace(_, _, _)
Replace(text, tok, new) ==
    IF text = << >> THEN << >>
    ELSE (IF Head(text) = tok THEN new ELSE <<Head(text)>>)
         \o Replace(Tail(text), tok, new)

\* text.strip(): leading and trailing whitespace removed
RECURSIVE LStrip(_)
LStrip(text) ==
    IF text # << >> /\ Head(text) \in WhitespaceTokens
    THEN LStrip(Tail(text)) ELSE text

RECURSIVE RStrip(_)
RStrip(text) ==
    IF text # << >> /\ text[Len(text)] \in WhitespaceTokens
    THEN RStrip(SubSeq(text, 1, Len(text) - 1)) ELSE text

Strip(text) == RStrip(LStrip(text))

(***************************************************************************)
(* generate_pdf, lines 37-68: the document loaded into the page.           *)
(***************************************************************************)
\* <style>{css}</style>, css a text
StyleBlock(css) == <<"<style>">> \o css \o <<"</style>">>

\* the template of lines 45-55
WrapWithStyle(html, css) ==
    <<"\n", "<!DOCTYPE html>", "\n", "<html>", "\n", "<head>",
      "\n  <meta charset=\"UTF-8\">\n  ">>
    \o StyleBlock(css)
    \o <<"\n", "</head>", "\n", "<body>", "\n">>
    \o html
    \o <<"\n", "</body>", "\n", "</html>">>

\* the template of lines 59-68
WrapPlain(text) ==
    <<"\n", "<!DOCTYPE html>", "\n", "<html>", "\n", "<head>",
      "\n  <meta charset=\"UTF-8\">\n", "</head>", "\n", "<body>", "\n">>
    \o text
    \o <<"\n", "</body>", "\n", "</html>">>

\* lines 38-55: css is a Python value, html a non-empty text
CombineCss(html, css) ==
    IF ~Truthy(css) THEN html
    ELSE IF Contains(html, HeadTag)
         THEN Replace(html, HeadTag, <<HeadTag>> \o StyleBlock(css.val))
    ELSE IF Contains(html, HtmlTag)
         THEN Replace(html, HtmlTag,
                      <<HtmlTag, HeadTag>> \o StyleBlock(css.val) \o <<"</head>">>)
    ELSE WrapWithStyle(html, css.val)

\* line 58
NeedsWrap(text) == ~StartsWithDoctype(text) /\ ~ContainsHtmlOpen(text)

\* lines 57-68
EnsureStructure(text) == IF NeedsWrap(text) THEN WrapPlain(text) ELSE text

Compose(html, css) == EnsureStructure(CombineCss(html, css))

(***************************************************************************)
(* generate_pdf, lines 83-100: the layout passed to page.pdf.              *)
(***************************************************************************)
Sides == {"top", "right", "bottom", "left"}
DefaultMargin == [s \in Sides |-> "20mm"]

\* line 88
ResolveMargin(options) == Get(options, "margin", DefaultMargin)

\* lines 84-100; options is the dict after `options or {}`
ResolveLayout(options) ==
    LET base == [format |-> Get(options, "format", "A4"),
                 landscape |-> Get(options, "orientation", "portrait") = "landscape",
                 printBackground |-> Get(options, "printBackground", TRUE),
                 margin |-> ResolveMargin(options)]
    IN IF Get(options, "displayHeaderFooter", FALSE)
       THEN base @@ [displayHeaderFooter |-> TRUE,
                     headerTemplate |-> Get(options, "headerTemplate", ""),
                     footerTemplate |-> Get(options, "footerTemplate", "")]
       ELSE base

(***************************************************************************)
(* get_file_size_string, lines 121-129.  len(content) is n.  The string    *)
(* "<num> KB" is [unit |-> "KB", num |-> num]; "<whole>.<dd> MB" is        *)
(* [unit |-> "MB", hundredths |-> 100 * whole + dd].                       *)
(***************************************************************************)
\* mutant of RoundHalfEven: the fraction cut off, as int(kb) would
RoundDown(num, den) == num \div den

\* the integer nearest to num / den, ties to the even one: what the format
\* specs .0f and .2f print for a value that the float holds exactly
RoundHalfEven(num, den) ==
    LET q == num \div den
        r == num % den
    IN IF 2 * r < den THEN q
       ELSE IF 2 * r > den THEN q + 1
       ELSE IF q % 2 = 0 THEN q ELSE q + 1

get_file_size_string(n) ==
    \* kb = n / 1024; kb < 1024
    IF n < 1024 * 1024
    THEN IF n >= 1024
         THEN [unit |-> "KB", num |-> RoundHalfEven(n, 1024)]
         ELSE [unit |-> "KB", num |-> 1]
    ELSE [unit |-> "MB", hundredths |-> RoundHalfEven(n * 100, 1024 * 1024)]

(***************************************************************************)
(* handle_call_tool, lines 270-273: the output file name.                  *)
(***************************************************************************)
AsciiLetters == {"a", "b", "e", "o", "p", "r", "t", "u", "Z"}
AsciiDigits == {"4", "7"}
\* non-ASCII characters for which str.isalnum() is true: e-acute, CJK "zhong"
UnicodeAlnum == {"U+00E9", "U+4E2D"}
\* characters for which str.isalnum() is false
OtherChars == {"/", ".", " ", "_", "-", "U+2014"}

\* c.isalnum(): Python's test is the Unicode one
IsAlnum(c) == c \in AsciiLetters \cup AsciiDigits \cup UnicodeAlnum

\* line 272, one character
SanitizeChar(c) == IF IsAlnum(c) \/ c \in {"_", "-"} THEN c ELSE "_"

\* line 272
Sanitize(filename) == [k \in 1..Len(filename) |-> SanitizeChar(filename[k])]

\* mutant of FullFilename: the unique identifier left out of the name
FullFilenameWithoutUuid(sanitized_filename, file_uuid) ==
    sanitized_filename \o <<".pdf">>

\* line 273
FullFilename(sanitized_filename, file_uuid) ==
    sanitized_filename \o <<"_">> \o file_uuid \o <<".pdf">>

(***************************************************************************)
(* The pdf_export pipeline: handle_call_tool (lines 246-302), generate_pdf *)
(* (lines 23-118), write_pdf_to_file (lines 147-159).  Each invocation is  *)
(* a coroutine; its position is pc[i].                                     *)
(***************************************************************************)
Invocations == {"inv1", "inv2"}

VARIABLES
    pc,           \* position of each invocation
    name,         \* handle_call_tool's name argument
    arguments,    \* handle_call_tool's arguments argument
    full_html,    \* generate_pdf: the composed document
    browser,      \* generate_pdf: TRUE once launch returned a browser, else None
    pdf_options,  \* generate_pdf: the layout given to page.pdf
    pdf_bytes,    \* generate_pdf: << >> or <<n>>, n the length of the capture
    error,        \* generate_pdf: the exception its handler holds
    full_filename,
    file_size,
    returned,     \* the values handle_call_tool returned to its caller
    escaped,      \* the exception handle_call_tool raised to its caller
    launchCalls,  \* how often launch was called
    closeCalls,   \* how often browser.close was called
    closeRaised,  \* some browser.close call raised
    failedStep,   \* the first step of the invocation that raised
    genOutcome,   \* generate_pdf: "none", "returned" or "raised"
    dirExists,    \* the export directory exists
    files,        \* the export directory: file name -> [writer, size]
    writeLog,     \* every <<file name, invocation>> that wrote
    usedUuids,    \* the identifiers uuid4 has drawn
    pureFn, pureArg, pureRes   \* a function applied on its own

callVars == <<name, arguments>>
genVars == <<full_html, browser, pdf_options, pdf_bytes>>
outVars == <<full_filename, file_size>>
fsVars == <<dirExists, files, writeLog, usedUuids>>
pureVars == <<pureFn, pureArg, pureRes>>
vars == <<pc, name, arguments, full_html, browser, pdf_options, pdf_bytes, error,
          full_filename, file_size, returned, escaped, launchCalls, closeCalls,
          closeRaised, failedStep, genOutcome, dirExists, files, writeLog,
          usedUuids, pureFn, pureArg, pureRes>>

NoError == [type |-> "none", msg |-> ""]
Exc(type, msg) == [type |-> type, msg |-> msg]

\* the classes derived from Exception that the pipeline can raise
ExceptionClasses ==
    {"ValueError", "AttributeError", "TypeError", "OSError",
     "BrowserError", "PageError", "NetworkError", "TimeoutError"}

\* mutant of HandlerCatches: except ValueError
HandlerCatchesValueErrorOnly(e) == e.type = "ValueError"

\* line 292: except Exception
HandlerCatches(e) == e.type \in ExceptionClasses

\* line 111: except Exception
CleanupCatches(e) == e.type \in ExceptionClasses

\* mutant of ShouldCloseOnError: the handler never closes the browser
NeverCloseOnError(b) == FALSE

\* mutant of ShouldCloseOnError: the handler closes without testing browser
AlwaysCloseOnError(b) == TRUE

\* line 113: if browser
ShouldCloseOnError(b) == b

\* lines 295-300
FailureResult(e) == [success |-> FALSE, error |-> e.msg]

\* lines 283-290
SuccessResult(fname, size) ==
    [path |-> fname, filetype |-> "application/pdf", filename |-> fname,
     filesize |-> size]

\* mutant of ValidationError: the test of lines 263-264 left out
ValidationErrorNoBlankCheck(html) ==
    IF ~Truthy(html) \/ html.kind # "str"
    THEN "HTML content must be provided as a string"
    ELSE ""

\* lines 260-264: the message of the validation error, "" when html is valid
ValidationError(html) ==
    IF ~Truthy(html) \/ html.kind # "str"
    THEN "HTML content must be provided as a string"
    ELSE IF Strip(html.val) = << >>
    THEN "HTML content cannot be empty"
    ELSE ""

(***************************************************************************)
(* The inputs.                                                             *)
(***************************************************************************)
ToolNames == {"pdf_export", "other_tool"}

Args(html, css, filename, options) ==
    Dict([html |-> html, css |-> css, filename |-> filename,
          description |-> Absent, options |-> options])

GoodHtml == Str(<<"<p>Hi</p>">>)

ArgumentCases ==
    { PyNone,                                                 \* not a dict
      Args(Absent, Absent, Absent, Absent),                   \* html missing
      Args(PyInt(5), Absent, Absent, Absent),                 \* html not text
      Args(Str(<< >>), Absent, Absent, Absent),               \* html empty
      Args(Str(<<" ", "\n">>), Absent, Absent, Absent),       \* html blank
      Args(GoodHtml, Absent, Absent, Absent),
      Args(GoodHtml, Str(<<"p{color:red}">>), Str(<<"r", "e", "p">>), PyNone),
      Args(GoodHtml, Absent, Str(<<"a", "/", "b">>), Dict(<< >>)),
      Args(GoodHtml, Absent, Str(<<"a">>), Dict([margin |-> [top |-> "10mm"]])),
      Args(GoodHtml, Absent, PyInt(7), Absent),               \* filename not text
      Args(GoodHtml, Absent, Absent, Str(<<"A4">>)) }         \* options not a dict

PdfSizes == {0, 1536, 1024 * 1024}

UuidChars == {"a", "-"}
Uuids == [1..UuidLen -> UuidChars]

InitPipeline ==
    /\ pc = [i \in Invocations |-> "idle"]
    /\ name = [i \in Invocations |-> ""]
    /\ arguments = [i \in Invocations |-> PyNone]
    /\ full_html = [i \in Invocations |-> << >>]
    /\ browser = [i \in Invocations |-> FALSE]
    /\ pdf_options = [i \in Invocations |-> << >>]
    /\ pdf_bytes = [i \in Invocations |-> << >>]
    /\ error = [i \in Invocations |-> NoError]
    /\ full_filename = [i \in Invocations |-> << >>]
    /\ file_size = [i \in Invocations |-> [unit |-> "none"]]
    /\ returned = [i \in Invocations |-> {}]
    /\ escaped = [i \in Invocations |-> NoError]
    /\ launchCalls = [i \in Invocations |-> 0]
    /\ closeCalls = [i \in Invocations |-> 0]
    /\ closeRaised = [i \in Invocations |-> FALSE]
    /\ failedStep = [i \in Invocations |-> "none"]
    /\ genOutcome = [i \in Invocations |-> "none"]
    /\ dirExists \in BOOLEAN
    /\ files = << >>
    /\ writeLog = {}
    /\ usedUuids = {}

PureIdle == pureFn = "none" /\ pureArg = << >> /\ pureRes = << >>

Init == InitPipeline /\ PureIdle

(***************************************************************************)
(* Raising.  HandlerRaise is an exception reaching handle_call_tool's try  *)
(* (lines 252-300); GenRaise is one raised inside generate_pdf's try       *)
(* (lines 36-118).                                                         *)
(***************************************************************************)
Failed(i, step) ==
    failedStep' = [failedStep EXCEPT ![i] = IF @ = "none" THEN step ELSE @]

HandlerRaise(i, e) ==
    /\ pc' = [pc EXCEPT ![i] = "done"]
    /\ IF HandlerCatches(e)
       THEN /\ returned' = [returned EXCEPT ![i] = @ \cup {FailureResult(e)}]
            /\ UNCHANGED escaped
       ELSE /\ escaped' = [escaped EXCEPT ![i] = e]
            /\ UNCHANGED returned

\* lines 111-118, up to the await of browser.close
GenRaise(i, e) ==
    IF CleanupCatches(e)
    THEN IF ShouldCloseOnError(browser[i])
         THEN /\ pc' = [pc EXCEPT ![i] = "closeOnError"]
              /\ error' = [error EXCEPT ![i] = e]
              /\ UNCHANGED <<returned, escaped, genOutcome>>
         ELSE /\ error' = [error EXCEPT ![i] = e]
              /\ genOutcome' = [genOutcome EXCEPT ![i] = "raised"]
              /\ HandlerRaise(i, e)
    ELSE /\ genOutcome' = [genOutcome EXCEPT ![i] = "raised"]
         /\ UNCHANGED error
         /\ HandlerRaise(i, e)

(***************************************************************************)
(* handle_call_tool, lines 246-268.                                        *)
(***************************************************************************)
\* the call arrives; line 251 and line 302
Call(i) ==
    /\ pc[i] = "idle"
    /\ \E nm \in ToolNames, args \in ArgumentCases :
         /\ name' = [name EXCEPT ![i] = nm]
         /\ arguments' = [arguments EXCEPT ![i] = args]
         /\ IF nm = "pdf_export"
            THEN /\ pc' = [pc EXCEPT ![i] = "validate"]
                 /\ UNCHANGED escaped
            ELSE /\ pc' = [pc EXCEPT ![i] = "done"]
                 /\ escaped' = [escaped EXCEPT ![i] =
                                   Exc("ValueError", "Unknown tool")]
    /\ UNCHANGED <<genVars, error, outVars, returned, launchCalls, closeCalls,
                   closeRaised, failedStep, genOutcome, fsVars, pureVars>>

\* lines 253-264
Validate(i) ==
    /\ pc[i] = "validate"
    /\ IF arguments[i].kind # "dict"
       THEN /\ HandlerRaise(i, Exc("AttributeError",
                                   "'NoneType' object has no attribute 'get'"))
            /\ Failed(i, "arguments")
       ELSE LET html == ArgGet(arguments[i].val, "html", PyNone)
            IN IF ValidationError(html) # ""
               THEN /\ HandlerRaise(i, Exc("ValueError", ValidationError(html)))
                    /\ Failed(i, "validate")
               ELSE /\ pc' = [pc EXCEPT ![i] = "compose"]
                    /\ UNCHANGED <<returned, escaped, failedStep>>
    /\ UNCHANGED <<callVars, genVars, error, outVars, launchCalls, closeCalls,
                   closeRaised, genOutcome, fsVars, pureVars>>

(***************************************************************************)
(* generate_pdf, lines 23-118.                                             *)
(***************************************************************************)
\* lines 29-68; the check of lines 29-30 is outside generate_pdf's try
ComposeDocument(i) ==
    /\ pc[i] = "compose"
    /\ LET html == ArgGet(arguments[i].val, "html", PyNone)
           css == ArgGet(arguments[i].val, "css", PyNone)
       IN IF ~Truthy(html)
          THEN /\ HandlerRaise(i, Exc("ValueError", "HTML content cannot be empty"))
               /\ Failed(i, "compose")
               /\ genOutcome' = [genOutcome EXCEPT ![i] = "raised"]
               /\ UNCHANGED full_html
          ELSE /\ full_html' = [full_html EXCEPT ![i] = Compose(html.val, css)]
               /\ pc' = [pc EXCEPT ![i] = "launch"]
               /\ UNCHANGED <<returned, escaped, failedStep, genOutcome>>
    /\ UNCHANGED <<callVars, browser, pdf_options, pdf_bytes, error, outVars,
                   launchCalls, closeCalls, closeRaised, fsVars, pureVars>>

\* mutant of Launch: a launch that failed is tried a second time
LaunchRetryOnce(i) ==
    /\ pc[i] = "launch"
    /\ launchCalls' = [launchCalls EXCEPT ![i] = @ + 1]
    /\ \E ok \in BOOLEAN :
         IF ok
         THEN /\ browser' = [browser EXCEPT ![i] = TRUE]
              /\ pc' = [pc EXCEPT ![i] = "newPage"]
              /\ UNCHANGED <<error, returned, escaped, failedStep, genOutcome>>
         ELSE IF launchCalls[i] = 0
         THEN UNCHANGED <<pc, browser, error, returned, escaped, failedStep,
                          genOutcome>>
         ELSE /\ GenRaise(i, Exc("BrowserError", "launch failed"))
              /\ Failed(i, "launch")
              /\ UNCHANGED browser
    /\ UNCHANGED <<callVars, full_html, pdf_options, pdf_bytes, outVars,
                   closeCalls, closeRaised, fsVars, pureVars>>

\* lines 72-75
Launch(i) ==
    /\ pc[i] = "launch"
    /\ launchCalls' = [launchCalls EXCEPT ![i] = @ + 1]
    /\ \E ok \in BOOLEAN :
         IF ok
         THEN /\ browser' = [browser EXCEPT ![i] = TRUE]
              /\ pc' = [pc EXCEPT ![i] = "newPage"]
              /\ UNCHANGED <<error, returned, escaped, failedStep, genOutcome>>
         ELSE /\ GenRaise(i, Exc("BrowserError", "launch failed"))
              /\ Failed(i, "launch")
              /\ UNCHANGED browser
    /\ UNCHANGED <<callVars, full_html, pdf_options, pdf_bytes, outVars,
                   closeCalls, closeRaised, fsVars, pureVars>>

\* an awaited call on the page that returns nothing the code keeps
PageStep(i, here, next, e) ==
    /\ pc[i] = here
    /\ \E ok \in BOOLEAN :
         IF ok
         THEN /\ pc' = [pc EXCEPT ![i] = next]
              /\ UNCHANGED <<error, returned, escaped, failedStep, genOutcome>>
         ELSE /\ GenRaise(i, e)
              /\ Failed(i, here)
    /\ UNCHANGED <<callVars, genVars, outVars, launchCalls, closeCalls,
                   closeRaised, fsVars, pureVars>>

\* line 77
NewPage(i) == PageStep(i, "newPage", "setContent", Exc("BrowserError", "newPage failed"))

\* line 80
SetContent(i) == PageStep(i, "setContent", "waitFor", Exc("PageError", "setContent failed"))

\* line 81
WaitFor(i) == PageStep(i, "waitFor", "layout", Exc("TimeoutError", "waitFor failed"))

\* line 33 and lines 84-100
PrepareOptions(i) ==
    /\ pc[i] = "layout"
    /\ LET given == ArgGet(arguments[i].val, "options", Dict(<< >>))
           options == IF Truthy(given) THEN given ELSE Dict(<< >>)
       IN IF options.kind # "dict"
          THEN /\ GenRaise(i, Exc("AttributeError",
                                  "'str' object has no attribute 'get'"))
               /\ Failed(i, "layout")
               /\ UNCHANGED pdf_options
          ELSE /\ pdf_options' = [pdf_options EXCEPT ![i] = ResolveLayout(options.val)]
               /\ pc' = [pc EXCEPT ![i] = "pdf"]
               /\ UNCHANGED <<error, returned, escaped, failedStep, genOutcome>>
    /\ UNCHANGED <<callVars, full_html, browser, pdf_bytes, outVars, launchCalls,
                   closeCalls, closeRaised, fsVars, pureVars>>

\* line 104
Capture(i) ==
    /\ pc[i] = "pdf"
    /\ \E ok \in BOOLEAN :
         IF ok
         THEN /\ \E n \in PdfSizes : pdf_bytes' = [pdf_bytes EXCEPT ![i] = <<n>>]
              /\ pc' = [pc EXCEPT ![i] = "close"]
              /\ UNCHANGED <<error, returned, escaped, failedStep, genOutcome>>
         ELSE /\ GenRaise(i, Exc("PageError", "pdf failed"))
              /\ Failed(i, "pdf")
              /\ UNCHANGED pdf_bytes
    /\ UNCHANGED <<callVars, full_html, browser, pdf_options, outVars,
                   launchCalls, closeCalls, closeRaised, fsVars, pureVars>>

\* lines 107-109: browser.close inside the try, then return pdf_bytes
CloseBrowser(i) ==
    /\ pc[i] = "close"
    /\ closeCalls' = [closeCalls EXCEPT ![i] = @ + 1]
    /\ \E ok \in BOOLEAN :
         IF ok
         THEN /\ genOutcome' = [genOutcome EXCEPT ![i] = "returned"]
              /\ pc' = [pc EXCEPT ![i] = "name"]
              /\ UNCHANGED <<error, returned, escaped, failedStep, closeRaised>>
         ELSE /\ GenRaise(i, Exc("NetworkError", "close failed"))
              /\ Failed(i, "close")
              /\ closeRaised' = [closeRaised EXCEPT ![i] = TRUE]
    /\ UNCHANGED <<callVars, genVars, outVars, launchCalls, fsVars, pureVars>>

\* lines 113-118: browser.close in the handler, its error logged, raise error
CloseOnError(i) ==
    /\ pc[i] = "closeOnError"
    /\ closeCalls' = [closeCalls EXCEPT ![i] = @ + 1]
    /\ \E ok \in BOOLEAN :
         closeRaised' = [closeRaised EXCEPT ![i] = @ \/ ~ok]
    /\ genOutcome' = [genOutcome EXCEPT ![i] = "raised"]
    /\ HandlerRaise(i, error[i])
    /\ UNCHANGED <<callVars, genVars, error, outVars, launchCalls, failedStep,
                   fsVars, pureVars>>

(***************************************************************************)
(* handle_call_tool, lines 270-300, and write_pdf_to_file.                 *)
(***************************************************************************)
\* lines 271-274; uuid4 draws an identifier never drawn before
NameFile(i) ==
    /\ pc[i] = "name"
    /\ \E file_uuid \in Uuids \ usedUuids :
         /\ usedUuids' = usedUuids \cup {file_uuid}
         /\ LET filename == ArgGet(arguments[i].val, "filename",
                                   Str(<<"o", "u", "t", "p", "u", "t">>))
            IN IF filename.kind # "str"
               THEN /\ HandlerRaise(i, Exc("TypeError", "object is not iterable"))
                    /\ Failed(i, "name")
                    /\ UNCHANGED outVars
               ELSE /\ full_filename' = [full_filename EXCEPT ![i] =
                           FullFilename(Sanitize(filename.val), file_uuid)]
                    /\ file_size' = [file_size EXCEPT ![i] =
                           get_file_size_string(pdf_bytes[i][1])]
                    /\ pc' = [pc EXCEPT ![i] = "ensureDir"]
                    /\ UNCHANGED <<returned, escaped, failedStep>>
    /\ UNCHANGED <<callVars, genVars, error, launchCalls, closeCalls, closeRaised,
                   genOutcome, dirExists, files, writeLog, pureVars>>

\* ensure_export_directory, lines 132-144
EnsureExportDirectory(i) ==
    /\ pc[i] = "ensureDir"
    /\ IF dirExists
       THEN /\ pc' = [pc EXCEPT ![i] = "write"]
            /\ UNCHANGED <<dirExists, returned, escaped, failedStep>>
       ELSE \E ok \in BOOLEAN :
              IF ok
              THEN /\ dirExists' = TRUE
                   /\ pc' = [pc EXCEPT ![i] = "write"]
                   /\ UNCHANGED <<returned, escaped, failedStep>>
              ELSE /\ HandlerRaise(i, Exc("OSError", "mkdir failed"))
                   /\ Failed(i, "ensureDir")
                   /\ UNCHANGED dirExists
    /\ UNCHANGED <<callVars, genVars, error, outVars, launchCalls, closeCalls,
                   closeRaised, genOutcome, files, writeLog, usedUuids, pureVars>>

\* what write_bytes leaves under the name: the whole content, or, when it
\* raises, nothing new or a file cut short
Written(i, fname, size) ==
    /\ files' = (fname :> [writer |-> i, size |-> size]) @@ files
    /\ writeLog' = writeLog \cup {<<fname, i>>}

\* write_pdf_to_file, lines 151-159
WriteFile(i) ==
    /\ pc[i] = "write"
    /\ \E ok \in BOOLEAN, opened \in BOOLEAN :
         IF ok
         THEN /\ opened
              /\ Written(i, full_filename[i], pdf_bytes[i][1])
              /\ pc' = [pc EXCEPT ![i] = "respond"]
              /\ UNCHANGED <<returned, escaped, failedStep>>
         ELSE /\ IF opened
                 THEN Written(i, full_filename[i], 0)
                 ELSE UNCHANGED <<files, writeLog>>
              /\ HandlerRaise(i, Exc("OSError", "write failed"))
              /\ Failed(i, "write")
    /\ UNCHANGED <<callVars, genVars, error, outVars, launchCalls, closeCalls,
                   closeRaised, genOutcome, dirExists, usedUuids, pureVars>>

\* lines 279-290
Respond(i) ==
    /\ pc[i] = "respond"
    /\ returned' = [returned EXCEPT ![i] =
                       @ \cup {SuccessResult(full_filename[i], file_size[i])}]
    /\ pc' = [pc EXCEPT ![i] = "done"]
    /\ UNCHANGED <<callVars, genVars, error, outVars, escaped, launchCalls,
                   closeCalls, closeRaised, failedStep, genOutcome, fsVars,
                   pureVars>>

Next ==
    \E i \in Invocations :
        \/ Call(i)
        \/ Validate(i)
        \/ ComposeDocument(i)
        \/ Launch(i)
        \/ NewPage(i)
        \/ SetContent(i)
        \/ WaitFor(i)
        \/ PrepareOptions(i)
        \/ Capture(i)
        \/ CloseBrowser(i)
        \/ CloseOnError(i)
        \/ NameFile(i)
        \/ EnsureExportDirectory(i)
        \/ WriteFile(i)
        \/ Respond(i)

Spec == Init /\ [][Next]_vars

(***************************************************************************)
(* The caller abandons the call: the task awaiting handle_call_tool is     *)
(* cancelled (a timeout around the call).  asyncio raises CancelledError   *)
(* at the await the coroutine is suspended in; the awaits that suspend are *)
(* those of generate_pdf, lines 72-115.  CancelledError derives from       *)
(* BaseException, not from Exception.                                      *)
(***************************************************************************)
SuspendedAt == {"launch", "newPage", "setContent", "waitFor", "pdf", "close",
                "closeOnError"}

\* the call the coroutine is suspended in has been made
Cancel(i) ==
    /\ pc[i] \in SuspendedAt
    /\ launchCalls' = [launchCalls EXCEPT ![i] =
                          IF pc[i] = "launch" THEN @ + 1 ELSE @]
    /\ closeCalls' = [closeCalls EXCEPT ![i] =
                         IF pc[i] \in {"close", "closeOnError"} THEN @ + 1 ELSE @]
    /\ GenRaise(i, Exc("CancelledError", ""))
    /\ UNCHANGED <<callVars, genVars, outVars, closeRaised, failedStep, fsVars,
                   pureVars>>

NextCancel == Next \/ \E i \in Invocations : Cancel(i)

SpecCancel == Init /\ [][NextCancel]_vars

(***************************************************************************)
(* The functions of the pipeline applied on their own, to inputs drawn     *)
(* from bounded sets.  pureFn names the function and whether it has been   *)
(* applied; pureArg is its input and pureRes = <<result>> once applied.    *)
(***************************************************************************)
SeqsUpTo(S, n) == UNION {[1..k -> S] : k \in 0..n}

ApplyPure(pending, applied, result) ==
    /\ pureFn = pending
    /\ pureFn' = applied
    /\ pureRes' = <<result>>
    /\ UNCHANGED <<pureArg, pc, callVars, genVars, error, outVars, returned,
                   escaped, launchCalls, closeCalls, closeRaised, failedStep,
                   genOutcome, fsVars>>

\* ---- line 272 on every base name --------------------------------------
NameChars == {"a", "Z", "7", "_", "-", "/", ".", " ", "U+00E9", "U+2014"}
BaseNames == SeqsUpTo(NameChars, MaxNameLen)

InitSanitize ==
    InitPipeline /\ ~dirExists /\ pureFn = "sanitize" /\ pureArg \in BaseNames /\ pureRes = << >>

ApplySanitize == ApplyPure("sanitize", "sanitized", Sanitize(pureArg))

SpecSanitize == InitSanitize /\ [][ApplySanitize]_vars

\* ---- get_file_size_string on sizes around its thresholds --------------
SizeInputs ==
    {n \in {512 * k + d : k \in 0..MaxHalfKB, d \in -1..1} : n >= 0}
    \cup {1024 * 1024 - 512 * k + d : k \in 0..MaxHalfKB, d \in -1..1}
    \cup {1024 * 1024 + 131072 * k + d : k \in 0..MaxEighthMB, d \in -1..1}

InitSize ==
    InitPipeline /\ ~dirExists /\ pureFn = "size" /\ pureArg \in SizeInputs /\ pureRes = << >>

ApplySize == ApplyPure("size", "sized", get_file_size_string(pureArg))

SpecSize == InitSize /\ [][ApplySize]_vars

\* ---- generate_pdf's composition, lines 29-68 --------------------------
ComposeTokens ==
    {"<!DOCTYPE html>", "<html>", "<html lang=\"en\">", "<head>", "<p>Hi</p>", "\n"}
HtmlInputs == SeqsUpTo(ComposeTokens, MaxHtmlLen)
CssInputs == {PyNone, Str(<< >>), Str(<<"p{color:red}">>)}

InitCompose ==
    /\ InitPipeline
    /\ ~dirExists
    /\ pureFn = "compose"
    /\ pureArg \in [html : HtmlInputs, css : CssInputs]
    /\ pureRes = << >>

\* lines 29-30 raise ValueError for an empty html
ApplyCompose ==
    ApplyPure("compose", "composed",
              IF pureArg.html = << >> THEN <<"ValueError">>
              ELSE Compose(pureArg.html, pureArg.css))

SpecCompose == InitCompose /\ [][ApplyCompose]_vars

\* ---- generate_pdf's layout, lines 84-100 ------------------------------
MarginValues == {"10mm", "0"}
MarginInputs == UNION {[S -> MarginValues] : S \in SUBSET Sides}
OtherOptions ==
    { [orientation |-> "portrait"],
      [orientation |-> "landscape"],
      [displayHeaderFooter |-> TRUE, footerTemplate |-> "page"],
      [format |-> "Letter", printBackground |-> FALSE] }
OptionsInputs ==
    OtherOptions \cup {[margin |-> m] @@ o : m \in MarginInputs, o \in OtherOptions}

InitLayout ==
    InitPipeline /\ ~dirExists /\ pureFn = "layout" /\ pureArg \in OptionsInputs /\ pureRes = << >>

ApplyLayout == ApplyPure("layout", "resolved", ResolveLayout(pureArg))

SpecLayout == InitLayout /\ [][ApplyLayout]_vars

(***************************************************************************)
(* Properties.                                                             *)
(***************************************************************************)
SuccessKeys == {"path", "filetype", "filename", "filesize"}
FailureKeys == {"success", "error"}
IsSuccess(r) == DOMAIN r = SuccessKeys /\ r.filetype = "application/pdf"
IsFailure(r) == DOMAIN r = FailureKeys /\ r.success = FALSE
Done(i) == pc[i] = "done"
Wrote(i) == \E w \in writeLog : w[2] = i

\* C1: a pdf_export call never raises to its caller, returns nothing before
\* it ends, and ends having returned exactly one value, which is either the
\* success shape or the failure shape.
C1_AlwaysOneStructuredResult ==
    \A i \in Invocations :
        name[i] = "pdf_export" =>
            /\ escaped[i] = NoError
            /\ ~Done(i) => returned[i] = {}
            /\ Done(i) =>
                 /\ Cardinality(returned[i]) = 1
                 /\ \A r \in returned[i] : IsSuccess(r) \/ IsFailure(r)

\* one invocation failed at the file write and returned the failure shape,
\* another went through and returned the success shape
C1_Witness ==
    \E i, j \in Invocations :
        /\ Done(i) /\ failedStep[i] = "write"
        /\ returned[i] = {[success |-> FALSE, error |-> "write failed"]}
        /\ Done(j) /\ failedStep[j] = "none" /\ name[j] = "pdf_export"
        /\ \E r \in returned[j] : IsSuccess(r)

\* the html argument is missing, is not text, or is only whitespace
HtmlUnusable(args) ==
    \/ args.kind # "dict"
    \/ args.val.html.kind # "str"
    \/ \A k \in 1..Len(args.val.html.val) : args.val.html.val[k] \in WhitespaceTokens

\* C2: an invocation whose html is missing, not text or blank never calls
\* launch, writes no file, and ends with the failure shape.
C2_InvalidHtmlNeverLaunches ==
    \A i \in Invocations :
        (name[i] = "pdf_export" /\ HtmlUnusable(arguments[i])) =>
            /\ launchCalls[i] = 0
            /\ ~Wrote(i)
            /\ Done(i) => (\A r \in returned[i] : IsFailure(r)) /\ returned[i] # {}

\* an invocation with whitespace-only html has ended
C2_Witness ==
    \E i \in Invocations :
        /\ Done(i) /\ name[i] = "pdf_export"
        /\ arguments[i].kind = "dict"
        /\ arguments[i].val.html = Str(<<" ", "\n">>)
        /\ failedStep[i] = "validate"

\* C3: once launch returned a browser, generate_pdf does not return or
\* raise before browser.close was invoked.
C3_BrowserClosedOnEveryExit ==
    \A i \in Invocations :
        (browser[i] /\ genOutcome[i] # "none") => closeCalls[i] >= 1

\* generate_pdf raised after the capture failed, with the browser closed
C3_Witness ==
    \E i \in Invocations :
        /\ browser[i] /\ genOutcome[i] = "raised" /\ failedStep[i] = "pdf"
        /\ closeCalls[i] = 1

\* C4: a browser.close that raises does not change the outcome: after a
\* successful capture generate_pdf returns the bytes, and after an earlier
\* failure the error reported is that failure's.
C4_CloseFailureKeepsOutcome ==
    \A i \in Invocations :
        closeRaised[i] =>
            /\ (pdf_bytes[i] # << >> /\ genOutcome[i] # "none")
                  => genOutcome[i] = "returned"
            /\ (Done(i) /\ failedStep[i] # "close")
                  => \A r \in returned[i] : IsFailure(r) /\ r.error # "close failed"

\* C5 as stated: after a failed launch the result is the failure shape and
\* a release (browser.close) was invoked.
C5_LaunchFailureStillReleases ==
    \A i \in Invocations :
        (Done(i) /\ failedStep[i] = "launch") =>
            /\ \A r \in returned[i] : IsFailure(r)
            /\ closeCalls[i] >= 1

\* C5 as amended: after a failed launch the result is the failure shape
\* with the launch error; generate_pdf's handler held that error and
\* re-raised it, and, no browser having been acquired, browser.close was
\* not invoked.
C5_LaunchFailureNothingToRelease ==
    \A i \in Invocations :
        (Done(i) /\ failedStep[i] = "launch") =>
            /\ returned[i] = {[success |-> FALSE, error |-> "launch failed"]}
            /\ error[i].msg = "launch failed"
            /\ genOutcome[i] = "raised"
            /\ ~browser[i]
            /\ launchCalls[i] = 1
            /\ closeCalls[i] = 0

\* an invocation whose launch failed has ended
C5_Witness ==
    \E i \in Invocations :
        Done(i) /\ failedStep[i] = "launch" /\ returned[i] # {}

\* C6: two invocations never build the same file name, and every file an
\* invocation wrote is still the one it wrote.
C6_DisjointFilenames ==
    /\ \A i, j \in Invocations :
         (i # j /\ full_filename[i] # << >> /\ full_filename[j] # << >>)
            => full_filename[i] # full_filename[j]
    /\ \A w \in writeLog : files[w[1]].writer = w[2]
    /\ \A v, w \in writeLog : v[2] # w[2] => v[1] # w[1]

\* two invocations with the same base name have both written their file
C6_Witness ==
    \E i, j \in Invocations :
        /\ i # j /\ Wrote(i) /\ Wrote(j)
        /\ arguments[i].val.filename = arguments[j].val.filename
        /\ Cardinality(DOMAIN files) = 2

\* C7: the sanitized name has the length of the base name; it keeps the
\* ASCII letters, the digits, '_' and '-' and has '_' everywhere else.
SafeChars == AsciiLetters \cup AsciiDigits \cup {"_", "-"}
C7_SanitizedIsAsciiSafe ==
    pureFn = "sanitized" =>
        LET res == pureRes[1]
        IN /\ Len(res) = Len(pureArg)
           /\ \A k \in 1..Len(pureArg) :
                /\ res[k] \in SafeChars
                /\ res[k] = IF pureArg[k] \in SafeChars THEN pureArg[k] ELSE "_"

\* v is an integer nearest to num / den
Nearest(v, num, den) ==
    /\ 2 * (v * den - num) <= den
    /\ 2 * (num - v * den) <= den

\* what C8 says apart from the number shown below 1024 bytes
SizeFormOf(n, res) ==
    /\ res.unit = "KB" <=> n < 1048576
    /\ res.unit = "MB" <=> n >= 1048576
    /\ res.unit = "MB" => Nearest(res.hundredths, n * 100, 1048576)
    /\ n = 1024 => res = [unit |-> "KB", num |-> 1]
    /\ n = 1048576 => res = [unit |-> "MB", hundredths |-> 100]

\* C8 as stated: KB below 1048576 bytes and MB with two decimals from
\* there on; the KB number is n/1024 rounded to the nearest integer, except
\* that a non-zero n below 1024 shows 1.
C8_SizeStringAsStated ==
    pureFn = "sized" =>
        LET n == pureArg
            res == pureRes[1]
        IN /\ SizeFormOf(n, res)
           /\ res.unit = "KB" =>
                IF n > 0 /\ n < 1024 THEN res.num = 1
                ELSE Nearest(res.num, n, 1024)

\* C8 as amended: the same, with every n below 1024, zero included,
\* showing 1.
C8_SizeString ==
    pureFn = "sized" =>
        LET n == pureArg
            res == pureRes[1]
        IN /\ SizeFormOf(n, res)
           /\ res.unit = "KB" =>
                IF n < 1024 THEN res.num = 1
                ELSE Nearest(res.num, n, 1024)

\* the empty content is shown as 1 KB
C8_Witness ==
    pureFn = "sized" /\ pureArg = 0 /\ pureRes = <<[unit |-> "KB", num |-> 1]>>

\* the text, leading whitespace aside, begins with a document type declaration
BeginsWithDoctype(text) ==
    LStrip(text) # << >> /\ Head(LStrip(text)) \in DoctypeTokens

\* C9: for a non-empty html without css the composed document begins with
\* a document type declaration and contains a root element opener, and
\* composing the composed document again changes nothing.
C9_ComposedIsDocument ==
    (pureFn = "composed" /\ pureArg.html # << >> /\ ~Truthy(pureArg.css)) =>
        LET doc == pureRes[1]
        IN /\ BeginsWithDoctype(doc)
           /\ ContainsHtmlOpen(doc)
           /\ Compose(doc, PyNone) = doc

\* C10: every side of the margin given to the capture has the caller's
\* value when the caller gave one and "20mm" when not.
C10_MarginSidesDefaultIndependently ==
    pureFn = "resolved" =>
        LET given == IF "margin" \in DOMAIN pureArg THEN pureArg.margin ELSE << >>
            margin == pureRes[1].margin
        IN \A s \in Sides :
             /\ s \in DOMAIN margin
             /\ margin[s] = IF s \in DOMAIN given THEN given[s] ELSE "20mm"

\* C11: an invocation cancelled while suspended in the render step, after
\* launch returned a browser and before the capture completed, has had
\* browser.close invoked on that browser.
C11_CancelledRenderReleasesBrowser ==
    \A i \in Invocations :
        (escaped[i].type = "CancelledError" /\ browser[i] /\ pdf_bytes[i] = << >>)
            => closeCalls[i] >= 1

\* the steps of one invocation, in the order of the code
StepOrder ==
    <<"validate", "compose", "launch", "newPage", "setContent", "waitFor",
      "layout", "pdf", "close", "name", "ensureDir", "write", "respond">>

\* what holds of an invocation in every state
OrderedState(i) ==
    /\ launchCalls[i] <= 1
    /\ Cardinality(returned[i]) <= 1
    /\ failedStep[i] # "none" => pc[i] \in {"closeOnError", "done"}
    /\ Wrote(i) => pdf_bytes[i] # << >> /\ genOutcome[i] = "returned"
    /\ (\E r \in returned[i] : IsSuccess(r)) =>
          /\ failedStep[i] = "none"
          /\ full_filename[i] \in DOMAIN files
          /\ files[full_filename[i]] = [writer |-> i, size |-> pdf_bytes[i][1]]

\* what holds of every step of an invocation
OrderedStep(i) ==
    /\ pc'[i] # pc[i] =>
          \/ pc[i] = "idle" /\ pc'[i] \in {"validate", "done"}
          \/ \E k \in 1..(Len(StepOrder) - 1) :
                /\ pc[i] = StepOrder[k]
                /\ pc'[i] = StepOrder[k + 1]
                /\ failedStep'[i] = "none"
          \/ /\ pc'[i] = "closeOnError"
             /\ browser[i]
             /\ failedStep[i] = "none" /\ failedStep'[i] # "none"
          \/ /\ pc'[i] = "done"
             /\ pc[i] \in {"respond", "closeOnError"} \/ failedStep'[i] # "none"
    /\ failedStep[i] # "none" =>
          /\ pc'[i] \in {pc[i], "done"}
          /\ launchCalls'[i] = launchCalls[i]
          /\ pdf_bytes'[i] = pdf_bytes[i]
          /\ full_filename'[i] = full_filename[i]
          /\ {w \in writeLog' : w[2] = i} = {w \in writeLog : w[2] = i}
          /\ \A r \in returned'[i] : IsFailure(r)

\* C12: the steps of an invocation run in the fixed order, each at most
\* once; after the first step that fails only the release of the browser
\* and the failure result follow; launch is called at most once, a file is
\* written only after a capture, and the success result is returned only
\* once the file holds the captured bytes.
C12_FixedOrderNoRetry ==
    /\ [](\A i \in Invocations : OrderedState(i))
    /\ [][\A i \in Invocations : OrderedStep(i)]_vars

\* an invocation failed loading the content: it launched once, closed the
\* browser, wrote nothing and returned the failure shape
C12_Witness ==
    \E i \in Invocations :
        /\ Done(i) /\ failedStep[i] = "setContent"
        /\ launchCalls[i] = 1 /\ closeCalls[i] = 1
        /\ ~Wrote(i)
        /\ returned[i] = {[success |-> FALSE, error |-> "setContent failed"]}

====
